---- MODULE Spec2Model ----
(***************************************************************************)
(* Flexihash: a consistent hash ring (src/src/lib.rs).                     *)
(*                                                                         *)
(* Strings are sequences of byte values ("t1" is <<116, 49>>), so that     *)
(* format!("{}{}", target, i), the lexicographic order of String and the   *)
(* decimal parse of Hasher::Mock are computed rather than assumed.         *)
(* Positions are natural numbers (u128 in the source).                     *)
(***************************************************************************)
EXTENDS Integers, Sequences, FiniteSets, TLC

(***************************************************************************)
(* Bounds of the model.                                                    *)
(***************************************************************************)
NumTargets == 3      \* how many names of TargetPool are used as targets
NumResources == 2    \* how many names of ResourcePool are looked up
NumHashers == 2      \* how many hashers of HasherPool set_hasher is given
MaxReplicas == 2     \* set_replicas takes 1..MaxReplicas
MaxWeight == 2       \* add_target takes weight 1..MaxWeight
MaxCount == 3        \* lookup_list takes requested_count 0..MaxCount
PosSpace == 19       \* size of the range of the Crc32 / Md5 stand-ins
MaxPositions == 2    \* add_target is called while replicas * weight <= this
MaxBatch == 2        \* add_targets takes lists of 1..MaxBatch targets
MaxRounds == 2       \* add / remove round trips of one target that are followed

DefaultReplicas == 64

Half == 65536        \* 2^16: a u32 is two halves of 16 bits

\* "t1", "t2", "t10", "x", "y"
TargetPool ==
  << <<116, 49>>, <<116, 50>>, <<116, 49, 48>>, <<120>>, <<121>> >>

\* "resource", "t10", "k", "r"
ResourcePool ==
  << <<114, 101, 115, 111, 117, 114, 99, 101>>, <<116, 49, 48>>,
     <<107>>, <<114>> >>

\* Crc32, Mock("10"), Md5, Mock("5"), Mock("15")
HasherPool ==
  << [kind |-> "Crc32"], [kind |-> "Mock", val |-> <<49, 48>>],
     [kind |-> "Md5"], [kind |-> "Mock", val |-> <<53>>],
     [kind |-> "Mock", val |-> <<49, 53>>] >>

Targets == {TargetPool[i] : i \in 1..NumTargets}

Resources == {ResourcePool[i] : i \in 1..NumResources}

Hashers == {HasherPool[i] : i \in 1..NumHashers}

(***************************************************************************)
(* Strings.                                                                *)
(***************************************************************************)
Min(a, b) == IF a <= b THEN a ELSE b

\* Ord for String: byte-wise lexicographic, a proper prefix is smaller.
RECURSIVE StrLess(_, _)
StrLess(a, b) ==
  IF b = <<>> THEN FALSE
  ELSE IF a = <<>> THEN TRUE
  ELSE IF Head(a) /= Head(b) THEN Head(a) < Head(b)
  ELSE StrLess(Tail(a), Tail(b))

\* Display of an unsigned integer: its decimal digits as bytes.
RECURSIVE ToDecimal(_)
ToDecimal(i) ==
  IF i < 10 THEN <<48 + i>>
  ELSE ToDecimal(i \div 10) \o <<48 + (i % 10)>>

\* u128::from_str_radix(val, 10) on a string of decimal digits.
RECURSIVE FromStrRadix10(_)
FromStrRadix10(s) ==
  IF Len(s) = 0 THEN 0
  ELSE 10 * FromStrRadix10(SubSeq(s, 1, Len(s) - 1)) + (s[Len(s)] - 48)

(***************************************************************************)
(* hash().  crc32::checksum_ieee and md5::compute are external crates:     *)
(* each is a fixed function of the bytes, here a polynomial checksum into  *)
(* 0..PosSpace-1, small enough for different inputs to collide.            *)
(***************************************************************************)
RECURSIVE PolySum(_, _)
PolySum(s, k) ==
  IF Len(s) = 0 THEN 0
  ELSE (PolySum(SubSeq(s, 1, Len(s) - 1), k) * k + s[Len(s)]) % PosSpace

hash(h, value) ==
  CASE h.kind = "Crc32" -> PolySum(value, 3)
    [] h.kind = "Md5" -> PolySum(value, 7)
    [] h.kind = "Mock" -> FromStrRadix10(h.val)

(***************************************************************************)
(* Maps (BTreeMap, HashMap) as functions with a finite domain.             *)
(***************************************************************************)
EmptyMap == <<>>

\* Mutant: an insert at a key that is present keeps the earlier value.
MapInsert_KeepFirst(m, k, v) ==
  [x \in DOMAIN m \cup {k} |-> IF x \in DOMAIN m THEN m[x] ELSE v]

\* BTreeMap::insert, HashMap::insert: the value at k is replaced.
MapInsert(m, k, v) ==
  [x \in DOMAIN m \cup {k} |-> IF x = k THEN v ELSE m[x]]

MapRemove(m, k) == [x \in DOMAIN m \ {k} |-> m[x]]

SetMin(S) == CHOOSE x \in S : \A y \in S : x <= y

\* BTreeMap::iter(): the entries in ascending key order, pushed to a Vec.
RECURSIVE IterSorted(_)
IterSorted(m) ==
  IF DOMAIN m = {} THEN <<>>
  ELSE LET k == SetMin(DOMAIN m)
       IN  <<(<<k, m[k]>>)>> \o IterSorted(MapRemove(m, k))

VARIABLES
  replicas,                    \* Flexihash.replicas
  hasher,                      \* Flexihash.hasher
  position_to_target,          \* Flexihash.position_to_target
  sorted_position_to_target,   \* Flexihash.sorted_position_to_target
  target_to_positions,         \* Flexihash.target_to_positions
  call,                        \* the last call, how it returned, the ring before
  live,                        \* targets added successfully, not removed since
  trip,                        \* an add_target / remove_target round trip
  fh2                          \* a second Flexihash, given the same mutations

vars ==
  <<replicas, hasher, position_to_target, sorted_position_to_target,
    target_to_positions, call, live, trip, fh2>>

ring == <<position_to_target, sorted_position_to_target, target_to_positions>>

config == <<replicas, hasher>>

NoTrip == [phase |-> "none"]

(***************************************************************************)
(* The ring as a value: the three collections of a Flexihash.              *)
(***************************************************************************)
Ring(p2t, sorted, t2p) ==
  [position_to_target |-> p2t,
   sorted_position_to_target |-> sorted,
   target_to_positions |-> t2p]

this == Ring(position_to_target, sorted_position_to_target,
             target_to_positions)

\* Flexihash::new(), as a value.
New ==
  [replicas |-> DefaultReplicas,
   hasher |-> [kind |-> "Crc32"],
   ring |-> Ring(EmptyMap, <<>>, EmptyMap)]

\* Flexihash::new(), twice.
Init ==
  /\ replicas = New.replicas
  /\ hasher = New.hasher
  /\ position_to_target = New.ring.position_to_target
  /\ sorted_position_to_target = New.ring.sorted_position_to_target
  /\ target_to_positions = New.ring.target_to_positions
  /\ call = [op |-> "new"]
  /\ live = {}
  /\ trip = NoTrip
  /\ fh2 = New

\* Mutant: only the last element is compared.
Contains_LastOnly(seq, x) == Len(seq) > 0 /\ seq[Len(seq)] = x

Contains(seq, x) == \E i \in 1..Len(seq) : seq[i] = x

\* format!("{}{}", t, i)
sub_target(target, i) == target \o ToDecimal(i)

\* add_target, the loop: the position of replica i = 0 .. count-1, in order.
GeneratePositions(h, target, count) ==
  [i \in 1..count |-> hash(h, sub_target(target, i - 1))]

\* add_target, the loop: position_to_target.insert(position, target).
RECURSIVE InsertPositions(_, _, _)
InsertPositions(m, positions, target) ==
  IF positions = <<>> THEN m
  ELSE InsertPositions(MapInsert(m, Head(positions), target),
                       Tail(positions), target)

\* A u32 as its two halves, with the overflow of the arithmetic that made
\* it (the integers of the model are narrower than a u32).
U32(n) == [hi |-> n \div Half, lo |-> n % Half, overflow |-> FALSE]

U32Add(x, y) ==
  LET lo == x.lo + y.lo
      hi == x.hi + y.hi + (lo \div Half)
  IN  [hi |-> hi % Half, lo |-> lo % Half,
       overflow |-> x.overflow \/ y.overflow \/ hi >= Half]

\* x * b on u32, by doubling.
RECURSIVE U32Mul(_, _)
U32Mul(x, b) ==
  IF b = 0 THEN U32(0)
  ELSE IF b = 1 THEN x
  ELSE LET rest == U32Mul(U32Add(x, x), b \div 2)
       IN  IF b % 2 = 1 THEN U32Add(rest, x) ELSE rest

\* self.replicas * weight: the product modulo 2^32, and whether it
\* overflowed (a build with overflow checks panics there).
Product(reps, weight) == U32Mul(U32(reps), weight)

\* The loops modelled are those of at most MaxPositions iterations.
InReach(reps, weight) ==
  Product(reps, weight).hi = 0 /\ Product(reps, weight).lo <= MaxPositions

OverflowMessage == "attempt to multiply with overflow"

\* Mutant: the generated positions are inserted but not recorded.
AddTarget_NoRecord(fh, h, reps, target, weight) ==
  LET positions == GeneratePositions(h, target, Product(reps, weight).lo)
      p2t == InsertPositions(fh.position_to_target, positions, target)
  IN  Ring(p2t, IterSorted(p2t),
           MapInsert(fh.target_to_positions, target, <<>>))

\* add_target past the duplicate check and the product.
AddTarget(fh, h, reps, target, weight) ==
  LET positions == GeneratePositions(h, target, Product(reps, weight).lo)
      p2t == InsertPositions(fh.position_to_target, positions, target)
  IN  Ring(p2t, IterSorted(p2t),
           MapInsert(fh.target_to_positions, target, positions))

\* Mutant: the loop stops before the last recorded position.
RECURSIVE RemovePositions_SkipLast(_, _)
RemovePositions_SkipLast(m, position_list) ==
  IF Len(position_list) <= 1 THEN m
  ELSE RemovePositions_SkipLast(MapRemove(m, Head(position_list)),
                                Tail(position_list))

\* remove_target, the loop: position_to_target.remove(position).
RECURSIVE RemovePositions(_, _)
RemovePositions(m, position_list) ==
  IF position_list = <<>> THEN m
  ELSE RemovePositions(MapRemove(m, Head(position_list)),
                       Tail(position_list))

\* Mutant: the target stays in the registry.
RemoveTarget_KeepRegistry(fh, target) ==
  LET p2t == RemovePositions(fh.position_to_target,
                             fh.target_to_positions[target])
  IN  Ring(p2t, IterSorted(p2t), fh.target_to_positions)

\* Mutant: the positions recorded for the targets that stay registered are
\* put back where the removal left no entry.
RemoveTarget_Restore(fh, target) ==
  LET p2t == RemovePositions(fh.position_to_target,
                             fh.target_to_positions[target])
      t2p == MapRemove(fh.target_to_positions, target)
      lost == {p \in UNION {{t2p[t][i] : i \in 1..Len(t2p[t])} :
                               t \in DOMAIN t2p} : p \notin DOMAIN p2t}
      back == [p \in DOMAIN p2t \cup lost |->
                 IF p \in DOMAIN p2t THEN p2t[p]
                 ELSE CHOOSE t \in DOMAIN t2p :
                        \E i \in 1..Len(t2p[t]) : t2p[t][i] = p]
  IN  Ring(back, IterSorted(back), t2p)

\* Mutant: the sorted index is not rebuilt after the removal.
RemoveTarget_StaleSorted(fh, target) ==
  LET p2t == RemovePositions(fh.position_to_target,
                             fh.target_to_positions[target])
  IN  Ring(p2t, fh.sorted_position_to_target,
           MapRemove(fh.target_to_positions, target))

\* remove_target of a registered target.
RemoveTarget(fh, target) ==
  LET p2t == RemovePositions(fh.position_to_target,
                             fh.target_to_positions[target])
  IN  Ring(p2t, IterSorted(p2t), MapRemove(fh.target_to_positions, target))

DuplicateMessage(target) == <<"Target ", target, " already exists">>

UnknownMessage(target) == <<"Target '", target, "' does not exist">>

\* Mutant: the keys are sorted in descending order.
RECURSIVE SortStrings_Descending(_)
SortStrings_Descending(S) ==
  IF S = {} THEN <<>>
  ELSE LET m == CHOOSE x \in S : \A y \in S \ {x} : StrLess(y, x)
       IN  <<m>> \o SortStrings_Descending(S \ {m})

\* Vec<String>::sort() of the registry's keys.
RECURSIVE SortStrings(_)
SortStrings(S) ==
  IF S = {} THEN <<>>
  ELSE LET m == CHOOSE x \in S : \A y \in S \ {x} : StrLess(x, y)
       IN  <<m>> \o SortStrings(S \ {m})

get_all_targets_of(fh) == SortStrings(DOMAIN fh.target_to_positions)

(***************************************************************************)
(* Lookups.                                                                *)
(***************************************************************************)
\* Ord for (Position, Target): by position, then by target.
EntryLess(a, b) == a[1] < b[1] \/ (a[1] = b[1] /\ StrLess(a[2], b[2]))

\* slice::binary_search over v[left..right], 0-based as in the source.
RECURSIVE BinarySearch(_, _, _, _)
BinarySearch(v, key, left, right) ==
  IF left >= right THEN [found |-> FALSE, pos |-> left]
  ELSE LET mid == left + ((right - left) \div 2)
       IN  IF EntryLess(v[mid + 1], key)
             THEN BinarySearch(v, key, mid + 1, right)
           ELSE IF EntryLess(key, v[mid + 1])
             THEN BinarySearch(v, key, left, mid)
           ELSE [found |-> TRUE, pos |-> mid]

\* match binary_search(..) { Ok(pos) => pos, Err(pos) => pos }
SearchOffset(v, resource_position) ==
  BinarySearch(v, <<resource_position, <<>> >>, 0, Len(v)).pos

\* Mutant: the walk ends at the last entry, without .chain(0..offset).
ChainOrder_NoWrap(offset, len) == [j \in 1..len - offset |-> offset + j - 1]

\* (offset..len).chain(0..offset), the 0-based indices in visiting order.
ChainOrder(offset, len) ==
  [j \in 1..len |->
     IF j <= len - offset THEN offset + j - 1 ELSE j - (len - offset) - 1]

\* Mutant: the loop pushes a target without the results.contains check.
RECURSIVE Collect_NoDedup(_, _, _, _, _)
Collect_NoDedup(v, order, results, requested_count, n_targets) ==
  IF order = <<>> THEN results
  ELSE LET pushed == Append(results, v[Head(order) + 1][2])
       IN  IF \/ Len(pushed) = requested_count
              \/ Len(pushed) = n_targets
             THEN pushed
             ELSE Collect_NoDedup(v, Tail(order), pushed,
                                  requested_count, n_targets)

\* The for loop of lookup_list.
RECURSIVE Collect(_, _, _, _, _)
Collect(v, order, results, requested_count, n_targets) ==
  IF order = <<>> THEN results
  ELSE LET target == v[Head(order) + 1][2]
       IN  IF ~Contains(results, target)
             THEN LET pushed == Append(results, target)
                  IN  IF \/ Len(pushed) = requested_count
                         \/ Len(pushed) = n_targets
                        THEN pushed
                        ELSE Collect(v, Tail(order), pushed,
                                     requested_count, n_targets)
             ELSE Collect(v, Tail(order), results,
                          requested_count, n_targets)

\* HashMap::iter(): the keys in an order that the RandomState of the map
\* decides, which differs from one map to another; any order of the keys.
RECURSIVE IterOrders(_)
IterOrders(S) ==
  IF S = {} THEN {<<>>}
  ELSE UNION {{<<k>> \o o : o \in IterOrders(S \ {k})} : k \in S}

CountMessage == "Need to request at least 1 resource"

EmptyMessage == "No targets set"

\* Mutant: no shortcut for a registry of one target.
lookup_list_in_NoFastPath(fh, h, resource, requested_count, keys) ==
  LET v == fh.sorted_position_to_target
      n_targets == Cardinality(DOMAIN fh.target_to_positions)
  IN  IF requested_count = 0
        THEN [outcome |-> "panic", message |-> CountMessage]
      ELSE IF n_targets = 0 THEN [outcome |-> "ok", value |-> <<>>]
      ELSE [outcome |-> "ok",
            value |-> Collect(v, ChainOrder(SearchOffset(v, hash(h, resource)),
                                            Len(v)),
                              <<>>, requested_count, n_targets)]

\* Mutant: a request for one target is answered with the first key of the
\* registry.
lookup_list_in_FirstKey(fh, h, resource, requested_count, keys) ==
  LET registry == fh.target_to_positions
      v == fh.sorted_position_to_target
      n_targets == Cardinality(DOMAIN registry)
  IN  IF requested_count = 0
        THEN [outcome |-> "panic", message |-> CountMessage]
      ELSE IF n_targets = 0 THEN [outcome |-> "ok", value |-> <<>>]
      ELSE IF n_targets = 1 \/ requested_count = 1
        THEN [outcome |-> "ok", value |-> <<keys[1]>>]
      ELSE LET offset == SearchOffset(v, hash(h, resource))
           IN  [outcome |-> "ok",
                value |-> Collect(v, ChainOrder(offset, Len(v)), <<>>,
                                  requested_count, n_targets)]

\* Mutant: the count is checked after the two shortcuts.
lookup_list_in_CountLast(fh, h, resource, requested_count, keys) ==
  LET registry == fh.target_to_positions
      v == fh.sorted_position_to_target
      n_targets == Cardinality(DOMAIN registry)
  IN  IF n_targets = 0 THEN [outcome |-> "ok", value |-> <<>>]
      ELSE IF n_targets = 1
        THEN [outcome |-> "ok", value |-> <<keys[1]>>]
      ELSE IF requested_count = 0
        THEN [outcome |-> "panic", message |-> CountMessage]
      ELSE LET offset == SearchOffset(v, hash(h, resource))
           IN  [outcome |-> "ok",
                value |-> Collect(v, ChainOrder(offset, Len(v)), <<>>,
                                  requested_count, n_targets)]

\* Mutant: the shortcut for one target is taken only while that target has
\* an entry in the sorted index.
lookup_list_in_OwnerOnly(fh, h, resource, requested_count, keys) ==
  LET registry == fh.target_to_positions
      v == fh.sorted_position_to_target
      n_targets == Cardinality(DOMAIN registry)
  IN  IF requested_count = 0
        THEN [outcome |-> "panic", message |-> CountMessage]
      ELSE IF n_targets = 0 THEN [outcome |-> "ok", value |-> <<>>]
      ELSE IF n_targets = 1 /\ (\E i \in 1..Len(v) : v[i][2] = keys[1])
        THEN [outcome |-> "ok", value |-> <<keys[1]>>]
      ELSE LET offset == SearchOffset(v, hash(h, resource))
           IN  [outcome |-> "ok",
                value |-> Collect(v, ChainOrder(offset, Len(v)), <<>>,
                                  requested_count, n_targets)]

\* lookup_list, with keys the order in which target_to_positions.iter()
\* yields the keys of the registry.
lookup_list_in(fh, h, resource, requested_count, keys) ==
  LET registry == fh.target_to_positions
      v == fh.sorted_position_to_target
      n_targets == Cardinality(DOMAIN registry)
  IN  IF requested_count = 0
        THEN [outcome |-> "panic", message |-> CountMessage]
      ELSE IF n_targets = 0 THEN [outcome |-> "ok", value |-> <<>>]
      ELSE IF n_targets = 1
        THEN [outcome |-> "ok", value |-> <<keys[1]>>]
      ELSE LET offset == SearchOffset(v, hash(h, resource))
           IN  [outcome |-> "ok",
                value |-> Collect(v, ChainOrder(offset, Len(v)), <<>>,
                                  requested_count, n_targets)]

\* Mutant: an empty list is answered with the empty string.
lookup_in_EmptyString(fh, h, resource, keys) ==
  LET targets == lookup_list_in(fh, h, resource, 1, keys).value
  IN  IF Len(targets) > 0
        THEN [outcome |-> "ok", value |-> targets[1]]
        ELSE [outcome |-> "ok", value |-> <<>>]

\* lookup, with the same keys.
lookup_in(fh, h, resource, keys) ==
  LET targets == lookup_list_in(fh, h, resource, 1, keys).value
  IN  IF Len(targets) > 0
        THEN [outcome |-> "ok", value |-> targets[1]]
        ELSE [outcome |-> "panic", message |-> EmptyMessage]

\* The two calls with one of the orders a HashMap can iterate in.
lookup_list_of(fh, h, resource, requested_count) ==
  lookup_list_in(fh, h, resource, requested_count,
                 CHOOSE keys \in IterOrders(DOMAIN fh.target_to_positions) :
                   TRUE)

lookup_of(fh, h, resource) ==
  lookup_in(fh, h, resource,
            CHOOSE keys \in IterOrders(DOMAIN fh.target_to_positions) : TRUE)

\* The calls on the ring as it is now.
LookupList(resource, requested_count) ==
  lookup_list_of(this, hasher, resource, requested_count)

Lookup(resource) == lookup_of(this, hasher, resource)

GetAllTargets == get_all_targets_of(this)

(***************************************************************************)
(* Configuration.                                                          *)
(***************************************************************************)
\* Mutant: the registered targets are hashed again with the new hasher.
set_hasher_Rehash(h) ==
  LET t2p == [t \in DOMAIN target_to_positions |->
                GeneratePositions(h, t, Len(target_to_positions[t]))]
      owners(p) == {t \in DOMAIN t2p : \E i \in 1..Len(t2p[t]) : t2p[t][i] = p}
      p2t == [p \in {q \in 0..PosSpace : owners(q) /= {}} |->
                CHOOSE t \in owners(p) : TRUE]
  IN  /\ hasher' = h
      /\ target_to_positions' = t2p
      /\ position_to_target' = p2t
      /\ sorted_position_to_target' = IterSorted(p2t)
      /\ call' = [op |-> "set_hasher"]
      /\ trip' = NoTrip
      /\ fh2' = [fh2 EXCEPT !.hasher = h]
      /\ UNCHANGED <<replicas, live>>

\* set_hasher: self.hasher = hasher.
set_hasher(h) ==
  /\ hasher' = h
  /\ call' = [op |-> "set_hasher"]
  /\ trip' = NoTrip
  /\ fh2' = [fh2 EXCEPT !.hasher = h]
  /\ UNCHANGED <<replicas, ring, live>>

set_replicas(n) ==
  /\ replicas' = n
  /\ call' = [op |-> "set_replicas"]
  /\ trip' = NoTrip
  /\ fh2' = [fh2 EXCEPT !.replicas = n]
  /\ UNCHANGED <<hasher, ring, live>>

(***************************************************************************)
(* Add / remove targets.                                                   *)
(***************************************************************************)
SetRing(fh) ==
  /\ position_to_target' = fh.position_to_target
  /\ sorted_position_to_target' = fh.sorted_position_to_target
  /\ target_to_positions' = fh.target_to_positions

\* fh2.add_target(target, weight)
Fh2AddTarget(target, weight) ==
  IF target \in DOMAIN fh2.ring.target_to_positions THEN fh2
  ELSE [fh2 EXCEPT !.ring = AddTarget(fh2.ring, fh2.hasher, fh2.replicas,
                                      target, weight)]

\* fh2.remove_target(target)
Fh2RemoveTarget(target) ==
  IF target \in DOMAIN fh2.ring.target_to_positions
    THEN [fh2 EXCEPT !.ring = RemoveTarget(fh2.ring, target)]
    ELSE fh2

\* The round trip a successful add_target(target, ..) starts or continues.
TripAfterAdd(target, positions) ==
  LET clobbers == \E i \in 1..Len(positions) :
                    positions[i] \in DOMAIN position_to_target
  IN  IF /\ trip.phase = "removed"
         /\ trip.target = target
         /\ trip.rounds < MaxRounds
        THEN [trip EXCEPT !.phase = "added",
                          !.clobbered = @ \/ clobbers]
        ELSE [phase |-> "added", target |-> target, rounds |-> 0,
              clobbered |-> clobbers, before |-> this]

TripAfterRemove(target) ==
  IF trip.phase = "added" /\ trip.target = target
    THEN [trip EXCEPT !.phase = "removed", !.rounds = @ + 1]
    ELSE NoTrip

\* Mutant: no check that the target is already registered.
add_target_NoCheck(target, weight) ==
  /\ InReach(replicas, weight)
  /\ LET fh == AddTarget(this, hasher, replicas, target, weight)
     IN  /\ SetRing(fh)
         /\ trip' = TripAfterAdd(target, fh.target_to_positions[target])
  /\ call' = [op |-> "add_target", target |-> target, weight |-> weight,
              outcome |-> "ok", before |-> this]
  /\ live' = live \cup {target}
  /\ fh2' = Fh2AddTarget(target, weight)
  /\ UNCHANGED config

add_target(target, weight) ==
  IF target \in DOMAIN target_to_positions
    THEN /\ call' = [op |-> "add_target", target |-> target,
                     weight |-> weight, outcome |-> "panic",
                     message |-> DuplicateMessage(target), before |-> this]
         /\ trip' = NoTrip
         /\ fh2' = Fh2AddTarget(target, weight)
         /\ UNCHANGED <<config, ring, live>>
    ELSE \/ /\ Product(replicas, weight).overflow
            /\ call' = [op |-> "add_target", target |-> target,
                        weight |-> weight, outcome |-> "panic",
                        message |-> OverflowMessage, before |-> this]
            /\ trip' = NoTrip
            /\ UNCHANGED <<config, ring, live, fh2>>
         \/ /\ InReach(replicas, weight)
            /\ LET fh == AddTarget(this, hasher, replicas, target, weight)
               IN  /\ SetRing(fh)
                   /\ trip' = TripAfterAdd(target,
                                           fh.target_to_positions[target])
            /\ call' = [op |-> "add_target", target |-> target,
                        weight |-> weight, outcome |-> "ok",
                        before |-> this]
            /\ live' = live \cup {target}
            /\ fh2' = Fh2AddTarget(target, weight)
            /\ UNCHANGED config

\* Mutant: an entry that is registered is skipped and the loop goes on.
RECURSIVE AddTargets_Continue(_, _, _, _, _)
AddTargets_Continue(fh, h, reps, targets, done) ==
  IF targets = <<>> THEN [fh |-> fh, outcome |-> "ok", added |-> done]
  ELSE IF Head(targets) \in DOMAIN fh.target_to_positions
    THEN LET rest == AddTargets_Continue(fh, h, reps, Tail(targets), done)
         IN  [fh |-> rest.fh, outcome |-> "panic", added |-> rest.added,
              message |-> DuplicateMessage(Head(targets))]
  ELSE AddTargets_Continue(AddTarget(fh, h, reps, Head(targets), 1), h,
                           reps, Tail(targets), Append(done, Head(targets)))

\* add_targets: add_target(target, 1) for each entry, until one panics.
RECURSIVE AddTargets(_, _, _, _, _)
AddTargets(fh, h, reps, targets, done) ==
  IF targets = <<>> THEN [fh |-> fh, outcome |-> "ok", added |-> done]
  ELSE IF Head(targets) \in DOMAIN fh.target_to_positions
    THEN [fh |-> fh, outcome |-> "panic", added |-> done,
          message |-> DuplicateMessage(Head(targets))]
  ELSE AddTargets(AddTarget(fh, h, reps, Head(targets), 1), h, reps,
                  Tail(targets), Append(done, Head(targets)))

\* fh2.add_targets(targets)
Fh2AddTargets(targets) ==
  [fh2 EXCEPT !.ring = AddTargets(fh2.ring, fh2.hasher, fh2.replicas,
                                  targets, <<>>).fh]

add_targets(targets) ==
  /\ replicas <= MaxPositions
  /\ LET r == AddTargets(this, hasher, replicas, targets, <<>>)
     IN  /\ SetRing(r.fh)
         /\ call' = [op |-> "add_targets", targets |-> targets,
                     outcome |-> r.outcome, added |-> r.added,
                     message |-> IF r.outcome = "panic" THEN r.message
                                 ELSE <<>>,
                     before |-> this]
         /\ live' = live \cup {r.added[i] : i \in 1..Len(r.added)}
  /\ trip' = NoTrip
  /\ fh2' = Fh2AddTargets(targets)
  /\ UNCHANGED config

\* Mutant: removing an unregistered target returns without a panic.
remove_target_Silent(target) ==
  IF target \in DOMAIN target_to_positions
    THEN /\ SetRing(RemoveTarget(this, target))
         /\ call' = [op |-> "remove_target", target |-> target,
                     outcome |-> "ok", before |-> this]
         /\ live' = live \ {target}
         /\ trip' = TripAfterRemove(target)
         /\ fh2' = Fh2RemoveTarget(target)
         /\ UNCHANGED config
    ELSE /\ call' = [op |-> "remove_target", target |-> target,
                     outcome |-> "ok", before |-> this]
         /\ trip' = NoTrip
         /\ fh2' = Fh2RemoveTarget(target)
         /\ UNCHANGED <<config, ring, live>>

remove_target(target) ==
  IF target \in DOMAIN target_to_positions
    THEN /\ SetRing(RemoveTarget(this, target))
         /\ call' = [op |-> "remove_target", target |-> target,
                     outcome |-> "ok", before |-> this]
         /\ live' = live \ {target}
         /\ trip' = TripAfterRemove(target)
         /\ fh2' = Fh2RemoveTarget(target)
         /\ UNCHANGED config
    ELSE /\ call' = [op |-> "remove_target", target |-> target,
                     outcome |-> "panic",
                     message |-> UnknownMessage(target), before |-> this]
         /\ trip' = NoTrip
         /\ fh2' = Fh2RemoveTarget(target)
         /\ UNCHANGED <<config, ring, live>>

get_all_targets ==
  /\ call' = [op |-> "get_all_targets", outcome |-> "ok",
              value |-> GetAllTargets]
  /\ trip' = NoTrip
  /\ UNCHANGED <<config, ring, live, fh2>>

\* Mutant: the sorted index is taken for the search and not put back.
lookup_Draining(resource) ==
  /\ \E keys \in IterOrders(DOMAIN target_to_positions) :
       call' = [op |-> "lookup", resource |-> resource]
                 @@ lookup_in(this, hasher, resource, keys)
  /\ sorted_position_to_target' = <<>>
  /\ trip' = NoTrip
  /\ UNCHANGED <<config, position_to_target, target_to_positions, live,
                 fh2>>

lookup(resource) ==
  /\ \E keys \in IterOrders(DOMAIN target_to_positions) :
       call' = [op |-> "lookup", resource |-> resource]
                 @@ lookup_in(this, hasher, resource, keys)
  /\ trip' = NoTrip
  /\ UNCHANGED <<config, ring, live, fh2>>

lookup_list(resource, requested_count) ==
  /\ \E keys \in IterOrders(DOMAIN target_to_positions) :
       call' = [op |-> "lookup_list", resource |-> resource,
                requested_count |-> requested_count]
                 @@ lookup_list_in(this, hasher, resource, requested_count,
                                   keys)
  /\ trip' = NoTrip
  /\ UNCHANGED <<config, ring, live, fh2>>

Batches == UNION {[1..n -> Targets] : n \in 1..MaxBatch}

\* A caller that sets the replica count to 1, as the tests with a Mock
\* hasher do, changes the hasher at any time, adds targets with weight 1,
\* removes them and looks up.
Next ==
  \/ \E h \in Hashers : set_hasher(h)
  \/ set_replicas(1)
  \/ \E t \in Targets : add_target(t, 1)
  \/ \E t \in Targets : remove_target(t)
  \/ get_all_targets
  \/ \E r \in Resources : lookup(r)
  \/ \E r \in Resources, n \in 0..MaxCount : lookup_list(r, n)

Spec == Init /\ [][Next]_vars

\* A caller that keeps the default hasher, changes the replica count at any
\* time, adds targets with a weight, removes them and looks up.
NextWeights ==
  \/ \E n \in 1..MaxReplicas : set_replicas(n)
  \/ \E t \in Targets, w \in 1..MaxWeight : add_target(t, w)
  \/ \E t \in Targets : remove_target(t)
  \/ get_all_targets
  \/ \E r \in Resources : lookup(r)
  \/ \E r \in Resources, n \in 0..MaxCount : lookup_list(r, n)

SpecWeights == Init /\ [][NextWeights]_vars

\* A caller that keeps the default hasher, sets the replica count to 1, adds
\* targets one by one and in batches, removes them and enumerates them.
NextBatch ==
  \/ set_replicas(1)
  \/ \E t \in Targets : add_target(t, 1)
  \/ \E ts \in Batches : add_targets(ts)
  \/ \E t \in Targets : remove_target(t)
  \/ get_all_targets

SpecBatch == Init /\ [][NextBatch]_vars

\* A caller that changes the hasher and the replica count at any time and
\* adds the two targets "t1" and "t10" with a weight, removes them and
\* looks up; the replica counts and weights include a large one, 2^16.
NextMock ==
  \/ \E h \in Hashers : set_hasher(h)
  \/ \E n \in 1..MaxReplicas \cup {Half} : set_replicas(n)
  \/ \E t \in {TargetPool[1], TargetPool[3]} :
       \E w \in 1..MaxWeight \cup {Half} : add_target(t, w)
  \/ \E t \in {TargetPool[1], TargetPool[3]} : remove_target(t)
  \/ \E r \in Resources : lookup(r)

SpecMock == Init /\ [][NextMock]_vars

(***************************************************************************)
(* Properties.                                                             *)
(***************************************************************************)
Registered == DOMAIN target_to_positions

\* The targets that own at least one position of the ring index.
Owners == {position_to_target[p] : p \in DOMAIN position_to_target}

Elements(seq) == {seq[i] : i \in 1..Len(seq)}

Returned(op) == call.op = op /\ call.outcome = "ok"

\* C1: remove_target(T) leaves every position that a different target U
\* owns in the ring index mapped to U.
C1_RemoveKeepsOtherOwners ==
  Returned("remove_target") =>
    \A p \in DOMAIN call.before.position_to_target :
      call.before.position_to_target[p] /= call.target =>
        /\ p \in DOMAIN position_to_target
        /\ position_to_target[p] = call.before.position_to_target[p]

\* C2 as stated: the length of lookup_list(r, n) is min(n, number of
\* registered targets), for every resource r and every n >= 1.
C2_CountBounds ==
  \A r \in Resources, n \in 1..MaxCount :
    Len(LookupList(r, n).value) = Min(n, Cardinality(Registered))

\* C2 amended: the length of lookup_list(r, n) is min(n, number of
\* registered targets) while at most one target is registered, and otherwise
\* min(n, number of targets that own a position of the ring index); the
\* list a lookup_list call returned has that length.
C2_CountBoundsOfOwners ==
  LET count(n) == IF Cardinality(Registered) <= 1
                    THEN Min(n, Cardinality(Registered))
                    ELSE Min(n, Cardinality(Owners))
  IN  /\ \A r \in Resources, n \in 1..MaxCount :
           Len(LookupList(r, n).value) = count(n)
      /\ Returned("lookup_list") =>
           Len(call.value) = count(call.requested_count)

\* lookup_list returned fewer targets than asked for and than registered.
C2_Witness ==
  /\ Returned("lookup_list")
  /\ Cardinality(Registered) >= 2
  /\ Len(call.value) >= 1
  /\ Len(call.value) < Min(call.requested_count, Cardinality(Registered))

\* C3 as stated: while a target is registered, lookup(r) returns, and
\* returns a target of get_all_targets(), for every resource r.
C3_Validity ==
  Registered /= {} =>
    \A r \in Resources :
      /\ Lookup(r).outcome = "ok"
      /\ Lookup(r).value \in Elements(GetAllTargets)

\* C3 amended: a target lookup(r) returns is a target of get_all_targets();
\* lookup(r) returns exactly when one target is registered, or two or more
\* are and the ring index is not empty, and fails otherwise.
C3_ValidityWhenReturned ==
  /\ \A r \in Resources :
       /\ Lookup(r).outcome = "ok" => Lookup(r).value \in Elements(GetAllTargets)
       /\ Lookup(r).outcome = "ok" <=>
            \/ Cardinality(Registered) = 1
            \/ Cardinality(Registered) >= 2 /\ DOMAIN position_to_target /= {}
  /\ Returned("lookup") => call.value \in Elements(GetAllTargets)

\* lookup returned a target of a ring where a registered target has lost
\* all its positions.
C3_Witness ==
  /\ Returned("lookup")
  /\ Cardinality(Registered) >= 2
  /\ Registered \ Owners /= {}
  /\ call.value \in Registered

\* The positions of the ring index in walking order from p: those >= p
\* ascending, then those < p ascending.
RECURSIVE Ascending(_)
Ascending(S) ==
  IF S = {} THEN <<>>
  ELSE LET hi == CHOOSE x \in S : \A y \in S : y <= x
       IN  Append(Ascending(S \ {hi}), hi)

Clockwise(p) ==
  Ascending({q \in DOMAIN position_to_target : q >= p})
    \o Ascending({q \in DOMAIN position_to_target : q < p})

\* The targets on a walk, each at its first occurrence, at most n of them.
RECURSIVE FirstOccurrences(_, _, _)
FirstOccurrences(walk, seen, n) ==
  IF walk = <<>> \/ Len(seen) = n THEN seen
  ELSE LET t == position_to_target[Head(walk)]
       IN  FirstOccurrences(Tail(walk),
                            IF t \in Elements(seen) THEN seen
                            ELSE Append(seen, t), n)

\* C4: with two or more targets registered, lookup_list(r, n) is the list
\* of the first n distinct targets met walking the ring index from the
\* smallest position >= hash(r), ascending, wrapping to the minimum.
C4_SuccessorWalk ==
  Cardinality(Registered) >= 2 =>
    /\ \A r \in Resources, n \in 1..MaxCount :
         LookupList(r, n).value
           = FirstOccurrences(Clockwise(hash(hasher, r)), <<>>, n)
    /\ Returned("lookup_list") =>
         call.value = FirstOccurrences(Clockwise(hash(hasher, call.resource)),
                                       <<>>, call.requested_count)

\* lookup_list returned a list that starts at a position >= hash(r) and
\* goes on past the maximum to a target whose positions are all < hash(r).
C4_Witness ==
  /\ Returned("lookup_list")
  /\ Cardinality(Registered) >= 2
  /\ Len(call.value) >= 2
  /\ LET p == hash(hasher, call.resource)
     IN  /\ \E q \in DOMAIN position_to_target :
              q >= p /\ position_to_target[q] = call.value[1]
         /\ \A q \in DOMAIN position_to_target :
              position_to_target[q] = call.value[Len(call.value)] => q < p

\* Every registered target owns, in the ring index, every position recorded
\* for it.  This is the state of a ring in which no two different targets,
\* removed ones included, have generated the same position.
FullyOwned(fh) ==
  \A t \in DOMAIN fh.target_to_positions :
    \A i \in 1..Len(fh.target_to_positions[t]) :
      LET p == fh.target_to_positions[t][i]
      IN  /\ p \in DOMAIN fh.position_to_target
          /\ fh.position_to_target[p] = t

Without(seq, x) == SelectSeq(seq, LAMBDA y : y /= x)

Take(seq, k) == SubSeq(seq, 1, Min(k, Len(seq)))

\* C5: in a ring where no two targets generated the same position,
\* remove_target(T) leaves lookup(r) unchanged for every r that did not
\* resolve to T, and lookup_list(r, k) is the full list of before with T
\* deleted, cut to k.
C5_MinimalDisruption ==
  (Returned("remove_target") /\ FullyOwned(call.before)) =>
    \A r \in Resources :
      LET was == lookup_of(call.before, hasher, r)
          all == Cardinality(DOMAIN call.before.target_to_positions)
          full == lookup_list_of(call.before, hasher, r, all).value
      IN  /\ (was.outcome = "ok" /\ was.value /= call.target) =>
               Lookup(r) = was
          /\ \A k \in 1..MaxCount :
               LookupList(r, k).value = Take(Without(full, call.target), k)

\* C6: a target that is not registered, after remove_target(T) the target
\* T, has no entry in the ring index or the sorted index and is returned by
\* no lookup or lookup_list, whatever the hasher and replica count now are.
C6_RemovedIsGone ==
  /\ Returned("remove_target") => call.target \notin Registered
  /\ \A t \in Targets \ Registered :
       /\ t \notin Owners
       /\ \A i \in 1..Len(sorted_position_to_target) :
            sorted_position_to_target[i][2] /= t
       /\ \A r \in Resources :
            /\ Lookup(r).outcome = "ok" => Lookup(r).value /= t
            /\ \A n \in 1..MaxCount : t \notin Elements(LookupList(r, n).value)
  /\ Returned("lookup") => call.value \in Registered
  /\ Returned("lookup_list") => Elements(call.value) \subseteq Registered

\* A target was removed whose recorded positions are not those the hasher
\* of now generates for it, from a ring that still has entries.
C6_Witness ==
  /\ Returned("remove_target")
  /\ LET position_list == call.before.target_to_positions[call.target]
     IN  position_list
           /= GeneratePositions(hasher, call.target, Len(position_list))
  /\ Cardinality(Registered) >= 2
  /\ Owners /= {}

\* C7: add_target(T, w) with T registered fails with the message naming T
\* and leaves the ring index, the sorted index and the registry as before.
C7_DuplicateAddFails ==
  (call.op = "add_target"
     /\ call.target \in DOMAIN call.before.target_to_positions) =>
    /\ call.outcome = "panic"
    /\ call.message = <<"Target ", call.target, " already exists">>
    /\ this = call.before

\* add_target of a registered target, on a ring with entries, has failed.
C7_Witness ==
  /\ call.op = "add_target"
  /\ call.outcome = "panic"
  /\ call.target \in Registered
  /\ position_to_target /= EmptyMap

\* C8: remove_target(T) with T not registered fails with the message
\* naming T and leaves the ring index, the sorted index and the registry as
\* before.
C8_UnknownRemoveFails ==
  (call.op = "remove_target"
     /\ call.target \notin DOMAIN call.before.target_to_positions) =>
    /\ call.outcome = "panic"
    /\ call.message = <<"Target '", call.target, "' does not exist">>
    /\ this = call.before

\* remove_target of an unregistered target, on a ring with entries, has
\* failed.
C8_Witness ==
  /\ call.op = "remove_target"
  /\ call.outcome = "panic"
  /\ call.target \notin Registered
  /\ position_to_target /= EmptyMap

\* a <= b in the lexicographic order of the bytes.
LexLeq(a, b) ==
  \E k \in 0..Min(Len(a), Len(b)) :
    /\ \A i \in 1..k : a[i] = b[i]
    /\ \/ k = Len(a)
       \/ k < Len(b) /\ a[k + 1] < b[k + 1]

\* C9: get_all_targets() is the list of the targets added and not removed
\* since, each once, in ascending lexicographic order; empty on a new ring.
C9_GetAllTargets ==
  LET all == GetAllTargets
  IN  /\ Elements(all) = live
      /\ Len(all) = Cardinality(live)
      /\ \A i \in 1..Len(all) : \A j \in i + 1..Len(all) :
           LexLeq(all[i], all[j]) /\ all[i] /= all[j]
      /\ call.op = "get_all_targets" => call.value = all
      /\ call.op = "new" => all = <<>>

\* get_all_targets returned "t1", "t10", "t2".
C9_Witness ==
  /\ call.op = "get_all_targets"
  /\ call.value = << <<116, 49>>, <<116, 49, 48>>, <<116, 50>> >>

\* C10 as stated: on a populated ring, add_target(N, w) then
\* remove_target(N), once or twice, leaves lookup(r) as it was, for every
\* resource r.
C10_RoundTrip ==
  (trip.phase = "removed" /\ DOMAIN trip.before.target_to_positions /= {}) =>
    \A r \in Resources : Lookup(r) = lookup_of(trip.before, hasher, r)

\* C10 amended: it does when no position generated for N was in the ring
\* index at the time N was added.
C10_RoundTripWithoutClobber ==
  (/\ trip.phase = "removed"
   /\ DOMAIN trip.before.target_to_positions /= {}
   /\ ~trip.clobbered) =>
    \A r \in Resources : Lookup(r) = lookup_of(trip.before, hasher, r)

\* Two round trips of a target that clobbered nothing, on a ring of two.
C10_Witness ==
  /\ trip.phase = "removed"
  /\ trip.rounds = 2
  /\ ~trip.clobbered
  /\ Cardinality(DOMAIN trip.before.target_to_positions) = 2
  /\ \E r \in Resources : Lookup(r).outcome = "ok"

\* The targets other than B, registered when B was removed, whose recorded
\* positions are all among those recorded for B.
CoveredBy(fh, B) ==
  {A \in DOMAIN fh.target_to_positions \ {B} :
     Elements(fh.target_to_positions[A])
       \subseteq Elements(fh.target_to_positions[B])}

\* C11: after remove_target(B), a target A whose generated positions were
\* all generated for B too is still in get_all_targets() and, while two or
\* more targets are registered, is in no lookup_list(r, n), which is then
\* shorter than the number of registered targets however large n is.
C11_ClobberedUnreachable ==
  Returned("remove_target") =>
    \A A \in CoveredBy(call.before, call.target) :
      /\ A \in Elements(GetAllTargets)
      /\ Cardinality(Registered) >= 2 =>
           \A r \in Resources, n \in 1..MaxCount :
             /\ A \notin Elements(LookupList(r, n).value)
             /\ Len(LookupList(r, n).value) < Cardinality(Registered)

\* B, added after A, owned every position of A when it was removed, and
\* two targets are left, one of them with an entry in the ring index.
C11_Witness ==
  /\ Returned("remove_target")
  /\ \E A \in CoveredBy(call.before, call.target) :
       \A p \in Elements(call.before.target_to_positions[A]) :
         /\ p \in DOMAIN call.before.position_to_target
         /\ call.before.position_to_target[p] = call.target
  /\ Cardinality(Registered) = 2
  /\ Owners /= {}

\* C12: a second ring, constructed anew and given the same set_hasher,
\* set_replicas, add_target(s) and remove_target calls and no lookup,
\* returns for every resource r and every n >= 1 the lookup(r) and the
\* lookup_list(r, n) of the first, in whatever order each of the two
\* registries iterates.
C12_Convergence ==
  /\ \A r \in Resources :
       /\ \A keys1 \in IterOrders(Registered) :
            /\ lookup_in(this, hasher, r, keys1) = Lookup(r)
            /\ \A n \in 1..MaxCount :
                 lookup_list_in(this, hasher, r, n, keys1) = LookupList(r, n)
       /\ \A keys2 \in IterOrders(DOMAIN fh2.ring.target_to_positions) :
            /\ lookup_in(fh2.ring, fh2.hasher, r, keys2) = Lookup(r)
            /\ \A n \in 1..MaxCount :
                 lookup_list_in(fh2.ring, fh2.hasher, r, n, keys2)
                   = LookupList(r, n)
  /\ (call.op = "lookup" \/ (call.op = "lookup_list"
                               /\ call.requested_count >= 1)) =>
       \A keys2 \in IterOrders(DOMAIN fh2.ring.target_to_positions) :
         LET other == IF call.op = "lookup"
                        THEN lookup_in(fh2.ring, fh2.hasher, call.resource,
                                       keys2)
                        ELSE lookup_list_in(fh2.ring, fh2.hasher,
                                            call.resource,
                                            call.requested_count, keys2)
         IN  /\ call.outcome = other.outcome
             /\ call.outcome = "ok" => call.value = other.value

\* lookup returned a target of a ring of two or more, whose second instance
\* has the same targets and was never looked up in.
C12_Witness ==
  /\ Returned("lookup")
  /\ Cardinality(DOMAIN fh2.ring.target_to_positions) >= 2
  /\ Cardinality(Owners) >= 2
  /\ \E keys2 \in IterOrders(DOMAIN fh2.ring.target_to_positions) :
       /\ keys2[1] /= call.value
       /\ lookup_in(fh2.ring, fh2.hasher, call.resource, keys2).value
            = call.value

\* C13: on a ring with no registered target, new or emptied by removals,
\* lookup_list(r, n) with n >= 1 returns the empty list and lookup(r) fails
\* with "No targets set".
C13_EmptyRing ==
  Registered = {} =>
    /\ \A r \in Resources :
         /\ Lookup(r) = [outcome |-> "panic", message |-> "No targets set"]
         /\ \A n \in 1..MaxCount :
              LookupList(r, n) = [outcome |-> "ok", value |-> <<>>]
    /\ call.op = "lookup" =>
         call.outcome = "panic" /\ call.message = "No targets set"
    /\ (call.op = "lookup_list" /\ call.requested_count >= 1) =>
         call.outcome = "ok" /\ call.value = <<>>

\* lookup has failed on a ring that a caller configured and left empty.
C13_Witness ==
  /\ call.op = "lookup"
  /\ call.outcome = "panic"
  /\ Registered = {}
  /\ sorted_position_to_target = <<>>
  /\ replicas = 1

\* C14: lookup_list(r, 0) fails with "Need to request at least 1 resource"
\* in every state of the ring, the empty ring and the ring of one target
\* included, and leaves the ring and its configuration unchanged.
C14_ZeroCountFails ==
  /\ [](\A r \in Resources : \A keys \in IterOrders(Registered) :
          lookup_list_in(this, hasher, r, 0, keys)
            = [outcome |-> "panic",
               message |-> "Need to request at least 1 resource"])
  /\ [][(call'.op = "lookup_list" /\ call'.requested_count = 0) =>
          /\ call'.outcome = "panic"
          /\ call'.message = "Need to request at least 1 resource"
          /\ UNCHANGED <<ring, config>>]_vars

\* lookup_list(r, 0) has failed on the empty ring.
C14_Witness ==
  /\ call.op = "lookup_list"
  /\ call.requested_count = 0
  /\ call.outcome = "panic"
  /\ Registered = {}

\* C15: while exactly one target T is registered, lookup_list(r, n) is [T]
\* for every resource r and every n >= 1, and lookup(r) is T, whatever r
\* hashes to and whether or not T has an entry left in the ring index.
C15_SingleTarget ==
  Cardinality(Registered) = 1 =>
    LET T == CHOOSE t \in Registered : TRUE
    IN  /\ \A r \in Resources : \A keys \in IterOrders(Registered) :
             /\ lookup_in(this, hasher, r, keys)
                  = [outcome |-> "ok", value |-> T]
             /\ \A n \in 1..MaxCount :
                  lookup_list_in(this, hasher, r, n, keys)
                    = [outcome |-> "ok", value |-> <<T>>]
        /\ call.op = "lookup" => call.outcome = "ok" /\ call.value = T
        /\ (call.op = "lookup_list" /\ call.requested_count >= 1) =>
             call.outcome = "ok" /\ call.value = <<T>>

\* lookup_list returned the one registered target, which has no entry in
\* the ring index, for a request of two or more.
C15_Witness ==
  /\ Returned("lookup_list")
  /\ call.requested_count >= 2
  /\ Cardinality(Registered) = 1
  /\ call.value = <<(CHOOSE t \in Registered : TRUE)>>
  /\ Owners = {}

Distinct(seq) == \A i, j \in 1..Len(seq) : seq[i] = seq[j] => i = j

\* C16: the targets of lookup_list(r, n) are pairwise distinct, for every
\* resource r and every n >= 1, in every state of the ring, also when
\* targets own several positions.
C16_Distinctness ==
  /\ \A r \in Resources, n \in 1..MaxCount :
       \A keys \in IterOrders(Registered) :
         Distinct(lookup_list_in(this, hasher, r, n, keys).value)
  /\ Returned("lookup_list") => Distinct(call.value)

\* lookup_list returned three targets from a walk that met a second
\* position of a target it had already taken.
C16_Witness ==
  /\ Returned("lookup_list")
  /\ Len(call.value) = 3
  /\ LET v == sorted_position_to_target
         offset == SearchOffset(v, hash(hasher, call.resource))
     IN  Collect_NoDedup(v, ChainOrder(offset, Len(v)), <<>>,
                         call.requested_count, Cardinality(Registered))
           /= call.value

\* add_target(t, 1) for each t of seq in turn, none of them registered.
RECURSIVE AddEach(_, _)
AddEach(fh, seq) ==
  IF seq = <<>> THEN fh
  ELSE AddEach(AddTarget(fh, hasher, replicas, Head(seq), 1), Tail(seq))

\* The entries of a list that are registered before the call or repeat an
\* earlier entry.
DuplicateEntries(fh, targets) ==
  {i \in 1..Len(targets) :
     \/ targets[i] \in DOMAIN fh.target_to_positions
     \/ \E j \in 1..i - 1 : targets[j] = targets[i]}

\* C17: add_targets(list) adds the entries in list order with weight 1; at
\* the first entry that is registered or repeats an earlier one it fails
\* with the message naming that entry, the entries before it added, those
\* after it not added, nothing taken back.
C17_AddTargetsPartial ==
  call.op = "add_targets" =>
    LET dup == DuplicateEntries(call.before, call.targets)
        stop == IF dup = {} THEN Len(call.targets) + 1 ELSE SetMin(dup)
        prefix == SubSeq(call.targets, 1, stop - 1)
    IN  /\ this = AddEach(call.before, prefix)
        /\ Registered
             = DOMAIN call.before.target_to_positions \cup Elements(prefix)
        /\ \A t \in Elements(prefix) :
             target_to_positions[t] = GeneratePositions(hasher, t, replicas)
        /\ call.added = prefix
        /\ IF dup = {} THEN call.outcome = "ok"
           ELSE /\ call.outcome = "panic"
                /\ call.message
                     = <<"Target ", call.targets[stop], " already exists">>

\* add_targets has failed at its second entry, the first one added.
C17_Witness ==
  /\ call.op = "add_targets"
  /\ call.outcome = "panic"
  /\ Len(call.targets) = 2
  /\ call.targets[1] \in Registered
                          \ DOMAIN call.before.target_to_positions
  /\ call.targets[2] \in DOMAIN call.before.target_to_positions

\* C18: a lookup, lookup_list or get_all_targets call leaves the ring
\* index, the sorted index, the registry, the hasher and the replica count
\* unchanged, and lookup(r) returns what the state of the ring determines,
\* the same before and after the call, so that repeating it with no
\* mutation in between gives the same target.
C18_PureReads ==
  /\ [][call'.op \in {"lookup", "lookup_list", "get_all_targets"} =>
          UNCHANGED <<ring, config>>]_vars
  /\ [][call'.op = "lookup" =>
          LET was == Lookup(call'.resource)
              is == lookup_of(this', hasher', call'.resource)
          IN  /\ was = is
              /\ call'.outcome = was.outcome
              /\ was.outcome = "ok" => call'.value = was.value
              /\ (call.op = "lookup" /\ call.resource = call'.resource) =>
                   call' = call]_vars

\* lookup returned the target the ring determines, on a ring with two
\* owners.
C18_Witness ==
  /\ Returned("lookup")
  /\ Cardinality(Owners) >= 2
  /\ call.value = Lookup(call.resource).value
  /\ call.value \in Owners

\* C19: when add_target(T, w) returns, with replica count r, the list
\* recorded under T has exactly r * w positions, the i-th (i = 0 .. r*w - 1)
\* being hash(T followed by the decimal digits of i), repeated positions
\* included and whatever positions the call overwrote.
C19_RecordedPositions ==
  Returned("add_target") =>
    LET list == target_to_positions[call.target]
    IN  /\ Len(list) % replicas = 0
        /\ Len(list) \div replicas = call.weight
        /\ \A i \in 0..Len(list) - 1 :
             /\ FromStrRadix10(ToDecimal(i)) = i
             /\ list[i + 1] = hash(hasher, call.target \o ToDecimal(i))

\* The positions add_target generated: those of the list it recorded.
Generated(fh, target) ==
  {fh.target_to_positions[target][i] :
     i \in 1..Len(fh.target_to_positions[target])}

\* C20: when add_target(T, w) returns, every position generated for T maps
\* to T in position_to_target, whoever owned it before, and at every other
\* position the index has the entry it had before the call, and no other.
C20_LastWriterWins ==
  Returned("add_target") =>
    LET was == call.before.position_to_target
        generated == Generated(this, call.target)
    IN  /\ \A p \in generated :
             p \in DOMAIN position_to_target
               /\ position_to_target[p] = call.target
        /\ DOMAIN position_to_target = DOMAIN was \cup generated
        /\ \A p \in DOMAIN was \ generated :
             position_to_target[p] = was[p]

\* The call took a position from another target, while an entry of that
\* target at another position survived.
C20_Witness ==
  /\ Returned("add_target")
  /\ \E p \in Generated(this, call.target) :
       /\ p \in DOMAIN call.before.position_to_target
       /\ \E q \in DOMAIN position_to_target \ Generated(this, call.target) :
            position_to_target[q] = call.before.position_to_target[p]

\* The target of the first entry of the sorted index at or after position
\* p, or of its first entry when there is none.
SuccessorTarget(v, p) ==
  IF \E i \in 1..Len(v) : v[i][1] >= p
    THEN v[CHOOSE i \in 1..Len(v) :
             v[i][1] >= p /\ \A j \in 1..i - 1 : v[j][1] < p][2]
    ELSE v[1][2]

\* C21: set_hasher changes the hasher and set_replicas the replica count,
\* and neither changes position_to_target, sorted_position_to_target or
\* target_to_positions, so the positions of the targets already added are
\* not hashed again; an add_target that returns leaves the lists of the
\* other targets as they were and records under its target the positions of
\* the hasher and the replica count of that moment; a lookup that returns
\* from two or more targets hashes the resource with the hasher of that
\* moment.
C21_ConfigFrame ==
  /\ [][call'.op = "set_hasher" => UNCHANGED <<ring, replicas, live>>]_vars
  /\ [][call'.op = "set_replicas" => UNCHANGED <<ring, hasher, live>>]_vars
  /\ [][(call'.op = "add_target" /\ call'.outcome = "ok") =>
          LET list == target_to_positions'[call'.target]
          IN  /\ UNCHANGED config
              /\ \A t \in DOMAIN target_to_positions :
                   /\ t \in DOMAIN target_to_positions'
                   /\ target_to_positions'[t] = target_to_positions[t]
              /\ Len(list) = Product(replicas, call'.weight).lo
              /\ \A i \in 1..Len(list) :
                   list[i] = hash(hasher, call'.target \o ToDecimal(i - 1))
       ]_vars
  /\ [][(call'.op = "lookup" /\ call'.outcome = "ok"
           /\ Cardinality(DOMAIN target_to_positions) >= 2) =>
          call'.value = SuccessorTarget(sorted_position_to_target,
                                        hash(hasher, call'.resource))]_vars

\* add_target returned with the hasher and the replica count of the moment
\* while another target keeps a list of the earlier settings: its first
\* position is not the one the hasher gives now and its length is not a
\* multiple of the replica count.
C21_Witness ==
  /\ Returned("add_target")
  /\ target_to_positions[call.target] /= <<>>
  /\ target_to_positions[call.target][1] =
       hash(hasher, call.target \o ToDecimal(0))
  /\ \E t \in DOMAIN target_to_positions \ {call.target} :
       /\ target_to_positions[t] /= <<>>
       /\ target_to_positions[t][1] /= hash(hasher, t \o ToDecimal(0))
       /\ Len(target_to_positions[t]) % replicas /= 0

\* C22: in every state, each entry (p -> T) of position_to_target has T
\* registered in target_to_positions and p in the list recorded for T.
C22_Ownership ==
  \A p \in DOMAIN position_to_target :
    /\ position_to_target[p] \in DOMAIN target_to_positions
    /\ p \in Generated(this, position_to_target[p])

\* The index has entries while a registered target has a recorded position
\* that another target owns: the converse of the invariant does not hold.
C22_Witness ==
  /\ DOMAIN position_to_target /= {}
  /\ \E t \in DOMAIN target_to_positions :
       \E p \in Generated(this, t) :
         p \in DOMAIN position_to_target /\ position_to_target[p] /= t

\* C23: in every state, so after every add_target and remove_target that
\* returned, sorted_position_to_target holds exactly the (position, target)
\* pairs of position_to_target, once each, with strictly increasing
\* positions, and the binary search of lookup_list stops at the number of
\* entries below the position of the resource.
C23_Mirror ==
  LET v == sorted_position_to_target
  IN  /\ {v[i] : i \in 1..Len(v)} =
           {<<p, position_to_target[p]>> : p \in DOMAIN position_to_target}
      /\ Len(v) = Cardinality(DOMAIN position_to_target)
      /\ \A i \in 1..Len(v) - 1 : v[i][1] < v[i + 1][1]
      /\ \A r \in Resources :
           SearchOffset(v, hash(hasher, r)) =
             Cardinality({i \in 1..Len(v) : v[i][1] < hash(hasher, r)})

\* remove_target returned and left an index of two or more entries that
\* is not the one before the call.
C23_Witness ==
  /\ Returned("remove_target")
  /\ Len(sorted_position_to_target) >= 2
  /\ sorted_position_to_target /= call.before.sorted_position_to_target

====
